---- MODULE Spec2Model ----
(***************************************************************************)
(* Model of benchmarks/native/accuracy_report.py: the acquisition of the   *)
(* simulator's CPI per benchmark and suite (run_test, the PolyBench and    *)
(* EmBench retry loops), the merge of the suite maps, compare_benchmarks   *)
(* and the summary computed by main.                                       *)
(*                                                                         *)
(* CPI values are integers in thousandths (0.41 is 410); latencies are    *)
(* integers in thousandths of a nanosecond.  Quotients are exact          *)
(* rationals [n, d] in lowest terms.                                       *)
(*                                                                         *)
(* Spec is main with the simulator runs it starts.  CompareSpec is         *)
(* compare_benchmarks, called with any calibration results, simulator CPIs *)
(* and frequency, followed by the summary and the outputs of main.         *)
(* ErrorSpec is calculate_error on any two latencies.  MergeSpec is the    *)
(* merge and the return of the acquirer on any four suite maps, ParseSpec  *)
(* the three scans of simulator output on any output.                      *)
(*                                                                         *)
(* benchmarks/native/embench_calibration.py: CalibrateSpec is main with    *)
(* calibrate_benchmark for every benchmark, RegressionSpec is              *)
(* linear_regression and TrimSpec is trimmed_mean, each on any short list. *)
(***************************************************************************)
EXTENDS Integers, Sequences, FiniteSets, TLC

VARIABLES pc, no_cache_cpis, dcache_cpis, polybench_cpis, embench_cpis,
          test_idx, attempt, cpis, simulator_cpis, invocations, last_exit,
          offered, only_timeouts, warnings, calibration_results,
          comparisons, cal_avg_error, cal_max_error, exit_code,
          frequency, markdown_report, json_results, latency_sim, latency_real,
          error_value, backoffs, run_output, scipy, bench_idx, level,
          data_points, calibrated_results, outcomes, sample_x, sample_y, regression,
          samples, mean_value

vars == <<pc, no_cache_cpis, dcache_cpis, polybench_cpis, embench_cpis,
          test_idx, attempt, cpis, simulator_cpis, invocations, last_exit,
          offered, only_timeouts, warnings, calibration_results,
          comparisons, cal_avg_error, cal_max_error, exit_code,
          frequency, markdown_report, json_results, latency_sim, latency_real,
          error_value, backoffs, run_output, scipy, bench_idx, level,
          data_points, calibrated_results, outcomes, sample_x, sample_y, regression,
          samples, mean_value>>

(***************************************************************************)
(* Bounds of the model.                                                    *)
(***************************************************************************)
\* lines of simulator output that one run may print
MaxLines == 2
\* entries of the merged calibration result list
MaxResults == 2

(***************************************************************************)
(* Static tables of get_simulator_cpi_for_benchmarks.  One benchmark of    *)
(* each kind stands for its group: a microbenchmark designated for the     *)
(* D-cache run, a microbenchmark that is not, a PolyBench and an EmBench   *)
(* benchmark.                                                              *)
(***************************************************************************)
Bench == {"memorystrided", "loadheavy", "atax", "edn"}

\* the short names parse_cpis can produce: the values of name_mapping
name_mapping == Bench

fallback_cpis ==
    [b \in Bench |-> CASE b = "memorystrided" -> 2700
                       [] b = "loadheavy"     -> 361
                       [] b = "atax"          -> 410
                       [] b = "edn"           -> 410]

dcache_benchmarks == {"memorystrided"}

polybench_tests == <<"atax">>

embench_tests == <<"edn">>

max_retries == 2

\* the tests the acquirer runs: the two run_test labels and one per benchmark
Tests == {"no_cache", "dcache", "atax", "edn"}

(***************************************************************************)
(* The simulator collaborator.  A run ends with exit status 0 ("ok"),      *)
(* with a non-zero status ("nonzero": CalledProcessError, which carries    *)
(* the output) or does not end in time ("timeout").  Its output is a list  *)
(* of lines; a line is the set of benchmark identifiers that occur on it,  *)
(* whether the marker CPI= occurs on it, and the value after the marker:   *)
(* {v} for a well-formed number v, {} for a missing or malformed one.      *)
(* The acquirer only copies CPI values, so one value per suite, different  *)
(* from suite to suite and from the fallbacks, stands for the floats.      *)
(***************************************************************************)
SimCPI(suite) == CASE suite = "no_cache"  -> {420}
                   [] suite = "dcache"    -> {840}
                   [] suite = "polybench" -> {600}
                   [] suite = "embench"   -> {800}

\* a line without the marker is skipped by every parser: one stands for all
NoMarkerLine == [ids |-> {}, marker |-> FALSE, value |-> {}]

Line(suite, names) ==
    {NoMarkerLine} \cup [ids : names, marker : {TRUE},
                         value : {{}} \cup {{v} : v \in SimCPI(suite)}]

\* the two run_test runs print lines naming any set of benchmarks
RunTestNames == SUBSET Bench

\* a run of one PolyBench or EmBench test prints lines naming one benchmark
\* of these two suites: its own or another one
LoopNames == {{"atax"}, {"edn"}}

RECURSIVE SeqsUpTo(_, _)
SeqsUpTo(S, n) ==
    IF n = 0 THEN {<<>>}
    ELSE LET shorter == SeqsUpTo(S, n - 1)
         IN  shorter \cup {Append(s, x) : s \in {t \in shorter : Len(t) = n - 1}, x \in S}

Output(suite, names) == SeqsUpTo(Line(suite, names), MaxLines)

RunResult(suite, names) ==
    [exit : {"ok", "nonzero"}, output : Output(suite, names)]
        \cup [exit : {"timeout"}, output : {<<>>}]

NoCacheRuns == RunResult("no_cache", RunTestNames)

DCacheRuns == RunResult("dcache", RunTestNames)

PolybenchRuns == RunResult("polybench", LoopNames)

EmbenchRuns == RunResult("embench", LoopNames)

(***************************************************************************)
(* Dictionaries: functions whose domain is the set of keys.                *)
(***************************************************************************)
EmptyMap == [b \in {} |-> 0]

Put(m, k, v) == [x \in DOMAIN m \cup {k} |-> IF x = k THEN v ELSE m[x]]

TheValue(s) == CHOOSE v \in s : TRUE

(***************************************************************************)
(* parse_cpis: every line with the marker sets the CPI of every benchmark  *)
(* whose full name occurs on it; a later line overwrites an earlier one; a *)
(* malformed value leaves the map as it is.                                *)
(***************************************************************************)
RECURSIVE parse_cpis_from(_, _, _)
parse_cpis_from(output, i, acc) ==
    IF i > Len(output) THEN acc
    ELSE LET line == output[i]
             hit  == IF line.marker /\ line.value # {}
                     THEN line.ids \cap name_mapping ELSE {}
             next == [b \in DOMAIN acc \cup hit |->
                        IF b \in hit THEN TheValue(line.value) ELSE acc[b]]
         IN  parse_cpis_from(output, i + 1, next)

parse_cpis(output) == parse_cpis_from(output, 1, EmptyMap)

(***************************************************************************)
(* run_test: one invocation; the output is parsed only when the run ends   *)
(* with status 0, every failure gives the empty map.                       *)
(***************************************************************************)
run_test(res) == IF res.exit = "ok" THEN parse_cpis(res.output) ELSE EmptyMap

(***************************************************************************)
(* The scan of the PolyBench loop: the value of the first line that holds  *)
(* the marker and the benchmark's name and a well-formed value; {} when    *)
(* there is none.                                                          *)
(***************************************************************************)
RECURSIVE polybench_scan_from(_, _, _)
polybench_scan_from(output, bench_name, i) ==
    IF i > Len(output) THEN {}
    ELSE IF output[i].marker /\ bench_name \in output[i].ids /\ output[i].value # {}
         THEN output[i].value
         ELSE polybench_scan_from(output, bench_name, i + 1)

polybench_scan(output, bench_name) == polybench_scan_from(output, bench_name, 1)

(***************************************************************************)
(* The scan of the EmBench loop: the value of the first line that holds    *)
(* the marker and a well-formed value, whatever name is on the line.       *)
(***************************************************************************)
RECURSIVE embench_scan_from(_, _, _)
embench_scan_from(output, bench_name, i) ==
    IF i > Len(output) THEN {}
    ELSE IF output[i].marker /\ output[i].value # {}
         THEN output[i].value
         ELSE embench_scan_from(output, bench_name, i + 1)

embench_scan(output, bench_name) == embench_scan_from(output, bench_name, 1)

\* a guard that is off by one: one attempt too many
retry_allowed_off_by_one(a) == a <= max_retries

\* the guard of both handlers of both loops: another attempt follows
retry_allowed(a) == a < max_retries

\* a last handler that only prints and leaves the suite map as it is
use_fallback_forgotten(m, bench_name) == m

\* the last handler's substitution: the fallback CPI when the table has one
use_fallback(m, bench_name) ==
    IF bench_name \in DOMAIN fallback_cpis
    THEN Put(m, bench_name, fallback_cpis[bench_name])
    ELSE m

fallback_warning(bench_name) ==
    IF bench_name \in DOMAIN fallback_cpis THEN {<<"FALLBACK", bench_name>>} ELSE {}

(***************************************************************************)
(* The merge of the four suite maps, over the keys of fallback_cpis.       *)
(***************************************************************************)
\* a merge over the keys of the suite maps
merged_keys_unfiltered(nc, dc, pb, eb) ==
    (DOMAIN dc \cap dcache_benchmarks) \cup DOMAIN pb \cup DOMAIN eb \cup DOMAIN nc

merged_keys(nc, dc, pb, eb) ==
    {b \in DOMAIN fallback_cpis :
        \/ b \in dcache_benchmarks /\ b \in DOMAIN dc
        \/ b \in DOMAIN pb
        \/ b \in DOMAIN eb
        \/ b \in DOMAIN nc}

\* a merge that tests the no-cache map first
merge_choice_no_cache_first(nc, dc, pb, eb, b) ==
    IF b \in DOMAIN nc THEN nc[b]
    ELSE IF b \in dcache_benchmarks /\ b \in DOMAIN dc THEN dc[b]
    ELSE IF b \in DOMAIN pb THEN pb[b]
    ELSE eb[b]

\* a merge that averages the D-cache and the no-cache value when it has both
merge_choice_averaged(nc, dc, pb, eb, b) ==
    IF b \in dcache_benchmarks /\ b \in DOMAIN dc
    THEN IF b \in DOMAIN nc THEN (dc[b] + nc[b]) \div 2 ELSE dc[b]
    ELSE IF b \in DOMAIN pb THEN pb[b]
    ELSE IF b \in DOMAIN eb THEN eb[b]
    ELSE nc[b]

merge_choice(nc, dc, pb, eb, b) ==
    IF b \in dcache_benchmarks /\ b \in DOMAIN dc THEN dc[b]
    ELSE IF b \in DOMAIN pb THEN pb[b]
    ELSE IF b \in DOMAIN eb THEN eb[b]
    ELSE nc[b]

merge(nc, dc, pb, eb) ==
    [b \in merged_keys(nc, dc, pb, eb) |-> merge_choice(nc, dc, pb, eb, b)]

\* a return without the fallback table
returned_cpis_merged_only(m) == m

\* the value get_simulator_cpi_for_benchmarks returns
returned_cpis(m) == IF DOMAIN m # {} THEN m ELSE fallback_cpis

(***************************************************************************)
(* Exact rationals.  [n |-> 1, d |-> 0] is float('inf').                   *)
(***************************************************************************)
Abs(x) == IF x < 0 THEN -x ELSE x

RECURSIVE GCD(_, _)
GCD(a, b) == IF b = 0 THEN a ELSE GCD(b, a % b)

Rat(n, d) ==
    LET g == GCD(Abs(n), Abs(d))
        s == IF d < 0 THEN -1 ELSE 1
    IN  IF g = 0 THEN [n |-> 0, d |-> 0]
        ELSE [n |-> s * (n \div g), d |-> s * (d \div g)]

Zero == Rat(0, 1)

Inf == [n |-> 1, d |-> 0]

\* sums over the least common denominator, to keep the integers small
LCD(a, b) == IF a.d = 0 \/ b.d = 0 THEN 0 ELSE (a.d \div GCD(a.d, b.d)) * b.d

Scaled(a, l) == IF a.d = 0 THEN a.n ELSE a.n * (l \div a.d)

RAdd(a, b) == Rat(Scaled(a, LCD(a, b)) + Scaled(b, LCD(a, b)), LCD(a, b))

RSub(a, b) == Rat(Scaled(a, LCD(a, b)) - Scaled(b, LCD(a, b)), LCD(a, b))

RMul(a, b) == Rat(a.n * b.n, a.d * b.d)

RDiv(a, b) == Rat(a.n * b.d, a.d * b.n)

RLess(a, b) == a.n * b.d < b.n * a.d

RMin(a, b) == IF RLess(b, a) THEN b ELSE a

RMax(a, b) == IF RLess(a, b) THEN b ELSE a

RAbs(a) == [n |-> Abs(a.n), d |-> a.d]

(***************************************************************************)
(* calculate_error and compare_benchmarks.                                 *)
(***************************************************************************)
\* calculate_error dividing by the real latency instead of the smaller one
calculate_error_relative_to_real(t_sim, t_real) ==
    IF RMin(t_sim, t_real) = Zero THEN Inf
    ELSE RDiv(RAbs(RSub(t_sim, t_real)), t_real)

\* calculate_error answering 0 when the smaller latency is zero
calculate_error_zero_for_zero_min(t_sim, t_real) ==
    IF RMin(t_sim, t_real) = Zero THEN Zero
    ELSE RDiv(RAbs(RSub(t_sim, t_real)), RMin(t_sim, t_real))

calculate_error(t_sim, t_real) ==
    IF RMin(t_sim, t_real) = Zero THEN Inf
    ELSE RDiv(RAbs(RSub(t_sim, t_real)), RMin(t_sim, t_real))

\* the default of the parameter assumed_frequency_ghz: 3.5
assumed_frequency_ghz == Rat(7, 2)

\* (calibration instructions, simulator instructions) per unit of work
loop_overhead_adjustment == [b \in {"loadheavy"} |-> <<20, 23>>]

\* the latencies and the 'calibrated' field of a calibration result entry;
\* "absent" is an entry without the field
RealLatency == {120}

CalibrationEntry ==
    [benchmark : Bench, instruction_latency_ns : RealLatency,
     calibrated : {"true", "false", "absent"}]

CalibrationInputs == SeqsUpTo(CalibrationEntry, MaxResults)

\* result.get('calibrated', True)
calibrated_of(result) == result.calibrated # "false"

\* the adjustment with the two instruction counts exchanged
adjusted_latency_inverted(bench_name, real_latency_ns) ==
    IF bench_name \in DOMAIN loop_overhead_adjustment
    THEN RDiv(RMul(real_latency_ns, Rat(loop_overhead_adjustment[bench_name][2], 1)),
              Rat(loop_overhead_adjustment[bench_name][1], 1))
    ELSE real_latency_ns

adjusted_latency(bench_name, real_latency_ns) ==
    IF bench_name \in DOMAIN loop_overhead_adjustment
    THEN RDiv(RMul(real_latency_ns, Rat(loop_overhead_adjustment[bench_name][1], 1)),
              Rat(loop_overhead_adjustment[bench_name][2], 1))
    ELSE real_latency_ns

\* the record with the error taken against the latency before its adjustment
BenchmarkComparison_adjusted_after(result, sim_cpis, freq) ==
    LET raw_latency_ns == Rat(result.instruction_latency_ns, 1)
        sim_cpi        == sim_cpis[result.benchmark]
        sim_latency_ns == RDiv(Rat(sim_cpi, 1), freq)
    IN  [name            |-> result.benchmark,
         real_latency_ns |-> adjusted_latency(result.benchmark, raw_latency_ns),
         sim_cpi         |-> sim_cpi,
         sim_latency_ns  |-> sim_latency_ns,
         error           |-> calculate_error(sim_latency_ns, raw_latency_ns),
         calibrated      |-> calibrated_of(result)]

\* the record with the CPI multiplied by the frequency
BenchmarkComparison_cpi_times_frequency(result, sim_cpis, freq) ==
    LET real_latency_ns == adjusted_latency(result.benchmark,
                                            Rat(result.instruction_latency_ns, 1))
        sim_cpi         == sim_cpis[result.benchmark]
        sim_latency_ns  == RMul(Rat(sim_cpi, 1), freq)
    IN  [name            |-> result.benchmark,
         real_latency_ns |-> real_latency_ns,
         sim_cpi         |-> sim_cpi,
         sim_latency_ns  |-> sim_latency_ns,
         error           |-> calculate_error(sim_latency_ns, real_latency_ns),
         calibrated      |-> calibrated_of(result)]

BenchmarkComparison(result, sim_cpis, freq) ==
    LET real_latency_ns == adjusted_latency(result.benchmark,
                                            Rat(result.instruction_latency_ns, 1))
        sim_cpi         == sim_cpis[result.benchmark]
        sim_latency_ns  == RDiv(Rat(sim_cpi, 1), freq)
    IN  [name            |-> result.benchmark,
         real_latency_ns |-> real_latency_ns,
         sim_cpi         |-> sim_cpi,
         sim_latency_ns  |-> sim_latency_ns,
         error           |-> calculate_error(sim_latency_ns, real_latency_ns),
         calibrated      |-> calibrated_of(result)]

RECURSIVE compare_from(_, _, _, _, _)
compare_from(results, sim_cpis, freq, i, acc) ==
    IF i > Len(results) THEN acc
    ELSE IF results[i].benchmark \notin DOMAIN sim_cpis
         THEN compare_from(results, sim_cpis, freq, i + 1, acc)
         ELSE compare_from(results, sim_cpis, freq, i + 1,
                           Append(acc, BenchmarkComparison(results[i], sim_cpis, freq)))

compare_benchmarks(results, sim_cpis, freq) ==
    compare_from(results, sim_cpis, freq, 1, <<>>)

\* the warnings compare_benchmarks prints for the entries it skips
compare_warnings(results, sim_cpis) ==
    {<<"NO_SIM_CPI", results[i].benchmark>> :
        i \in {j \in 1..Len(results) : results[j].benchmark \notin DOMAIN sim_cpis}}

(***************************************************************************)
(* The summary of main: the records with calibrated = True, their mean and *)
(* maximum error, and the exit status.                                     *)
(***************************************************************************)
\* the selection that keeps every record
calibrated_records_unfiltered(cmps) == cmps

IsCalibrated(c) == c.calibrated

calibrated_records(cmps) == SelectSeq(cmps, IsCalibrated)

RECURSIVE SumErrors(_, _)
SumErrors(cmps, i) ==
    IF i > Len(cmps) THEN Zero ELSE RAdd(cmps[i].error, SumErrors(cmps, i + 1))

RECURSIVE MaxErrors(_, _)
MaxErrors(cmps, i) ==
    IF i = Len(cmps) THEN cmps[i].error
    ELSE RMax(cmps[i].error, MaxErrors(cmps, i + 1))

avg_error(cal) ==
    IF Len(cal) = 0 THEN Zero ELSE RDiv(SumErrors(cal, 1), Rat(Len(cal), 1))

max_error(cal) == IF Len(cal) = 0 THEN Zero ELSE MaxErrors(cal, 1)

\* main returns 1 when the calibrated mean error is above 2.0
tolerance == Rat(2, 1)

\* the exit status with the tolerance itself counted as degraded
exit_status_at_tolerance(avg) == IF RLess(avg, tolerance) THEN 0 ELSE 1

exit_status(avg) == IF RLess(tolerance, avg) THEN 1 ELSE 0

IsUncalibrated(c) == ~c.calibrated

uncalibrated_records(cmps) == SelectSeq(cmps, IsUncalibrated)

\* the benchmark named by each row of a table of the report
RECURSIVE table_rows(_)
table_rows(cmps) ==
    IF cmps = <<>> THEN <<>> ELSE <<Head(cmps).name>> \o table_rows(Tail(cmps))

\* generate_markdown_report: the two values its summary section shows and
\* the rows of its two tables; the text of the report, which shows the
\* numbers rounded, is not modelled
generate_markdown_report(cmps) ==
    [average_error |-> avg_error(calibrated_records(cmps)),
     max_error     |-> max_error(calibrated_records(cmps)),
     calibrated    |-> table_rows(calibrated_records(cmps)),
     uncalibrated  |-> table_rows(uncalibrated_records(cmps))]

\* generate_json_results: the object written to accuracy_results.json
generate_json_results(cmps) ==
    [summary |->
        [average_error      |-> avg_error(calibrated_records(cmps)),
         max_error          |-> max_error(calibrated_records(cmps)),
         calibrated_count   |-> Len(calibrated_records(cmps)),
         uncalibrated_count |-> Len(cmps) - Len(calibrated_records(cmps)),
         benchmark_count    |-> Len(cmps)],
     benchmarks |-> cmps]

(***************************************************************************)
(* The state machine.  pc is the position in main and in                   *)
(* get_simulator_cpi_for_benchmarks.  invocations, last_exit, offered and  *)
(* only_timeouts observe the simulator runs of the call in progress, per   *)
(* test: how many runs were started, how the last one ended, the CPI its   *)
(* output held for the benchmark, and whether every run so far timed out.  *)
(* warnings is the part of the printed log that names a fallback           *)
(* substitution or a benchmark without a simulator CPI.  markdown_report   *)
(* and json_results are empty until the file is written and then hold what *)
(* was written.  frequency is the argument assumed_frequency_ghz of        *)
(* compare_benchmarks; latency_sim, latency_real and error_value are the   *)
(* arguments and the result of a call of calculate_error on its own.       *)
(* backoffs counts, per test, the pauses of five seconds of its retry      *)
(* loop.                                                                   *)
(***************************************************************************)
NoRuns == [t \in Tests |-> 0]

NoExit == [t \in Tests |-> "none"]

NoOffer == [t \in Tests |-> {}]

AllTimeouts == [t \in Tests |-> TRUE]

\* embench_calibration.py and the functions checked on their own are not
\* part of a run of accuracy_report.py
CalibrationIdle ==
    /\ run_output = <<>>
    /\ scipy = FALSE
    /\ bench_idx = 1
    /\ level = 1
    /\ data_points = <<>>
    /\ calibrated_results = <<>>
    /\ outcomes = <<>>
    /\ sample_x = <<>>
    /\ sample_y = <<>>
    /\ regression = {}
    /\ samples = <<>>
    /\ mean_value = {}

CalibrationUnchanged ==
    UNCHANGED <<run_output, scipy, bench_idx, level, data_points,
                calibrated_results, outcomes, sample_x, sample_y, regression, samples, mean_value>>

Init ==
    /\ pc = "no_cache"
    /\ no_cache_cpis = EmptyMap
    /\ dcache_cpis = EmptyMap
    /\ polybench_cpis = EmptyMap
    /\ embench_cpis = EmptyMap
    /\ test_idx = 1
    /\ attempt = 0
    /\ cpis = EmptyMap
    /\ simulator_cpis = EmptyMap
    /\ invocations = NoRuns
    /\ last_exit = NoExit
    /\ offered = NoOffer
    /\ only_timeouts = AllTimeouts
    /\ backoffs = NoRuns
    /\ warnings = {}
    /\ calibration_results = <<>>
    /\ comparisons = <<>>
    /\ cal_avg_error = Zero
    /\ cal_max_error = Zero
    /\ exit_code = 0
    /\ frequency = assumed_frequency_ghz
    /\ markdown_report = {}
    /\ json_results = {}
    /\ latency_sim = Zero
    /\ latency_real = Zero
    /\ error_value = Zero
    /\ CalibrationIdle

Observe(t, exit, off) ==
    /\ invocations' = [invocations EXCEPT ![t] = @ + 1]
    /\ last_exit' = [last_exit EXCEPT ![t] = exit]
    /\ offered' = [offered EXCEPT ![t] = off]
    /\ only_timeouts' = [only_timeouts EXCEPT ![t] = @ /\ exit = "timeout"]

\* what a call of calculate_error on its own reads and writes
ErrorUnchanged == UNCHANGED <<latency_sim, latency_real, error_value>>

MainUnchanged ==
    /\ UNCHANGED <<simulator_cpis, calibration_results, comparisons,
                   cal_avg_error, cal_max_error, exit_code, frequency,
                   markdown_report, json_results>>
    /\ ErrorUnchanged
    /\ CalibrationUnchanged

\* no_cache_cpis = run_test("TestTimingPredictions_CPIBounds", "no-cache")
RunNoCache ==
    /\ pc = "no_cache"
    /\ \E res \in NoCacheRuns :
          /\ no_cache_cpis' = run_test(res)
          /\ Observe("no_cache", res.exit, {})
    /\ pc' = "dcache"
    /\ UNCHANGED <<dcache_cpis, polybench_cpis, embench_cpis, test_idx, attempt,
                   cpis, warnings, backoffs>>
    /\ MainUnchanged

\* dcache_cpis = run_test("TestAccuracyCPI_WithDCache", "D-cache")
RunDCache ==
    /\ pc = "dcache"
    /\ \E res \in DCacheRuns :
          /\ dcache_cpis' = run_test(res)
          /\ Observe("dcache", res.exit, {})
    /\ pc' = "polybench"
    /\ UNCHANGED <<no_cache_cpis, polybench_cpis, embench_cpis, test_idx, attempt,
                   cpis, warnings, backoffs>>
    /\ MainUnchanged

\* the retry loop of the current test is left: the next test, or the next stage
NextTest(tests, after) ==
    /\ attempt' = 0
    /\ IF test_idx < Len(tests)
       THEN test_idx' = test_idx + 1 /\ pc' = pc
       ELSE test_idx' = 1 /\ pc' = after

\* an attempt of the PolyBench loop that returns: the output is scanned, then break
PolybenchCompleted ==
    /\ pc = "polybench"
    /\ \E res \in PolybenchRuns :
          LET bench_name == polybench_tests[test_idx]
              found      == polybench_scan(res.output, bench_name)
          IN  /\ res.exit = "ok"
              /\ polybench_cpis' = IF found # {}
                                   THEN Put(polybench_cpis, bench_name, TheValue(found))
                                   ELSE polybench_cpis
              /\ Observe(bench_name, "ok", found)
    /\ NextTest(polybench_tests, "embench")
    /\ UNCHANGED <<no_cache_cpis, dcache_cpis, embench_cpis, cpis, warnings,
                   backoffs>>
    /\ MainUnchanged

\* handlers that sleep after every failed attempt, the last one too
PolybenchFailed_sleeps_after_last(bench_name) ==
    IF retry_allowed(attempt)
    THEN /\ attempt' = attempt + 1
         /\ backoffs' = [backoffs EXCEPT ![bench_name] = @ + 1]
         /\ UNCHANGED <<polybench_cpis, warnings, test_idx, pc>>
    ELSE /\ polybench_cpis' = use_fallback(polybench_cpis, bench_name)
         /\ backoffs' = [backoffs EXCEPT ![bench_name] = @ + 1]
         /\ warnings' = warnings \cup fallback_warning(bench_name)
         /\ NextTest(polybench_tests, "embench")

\* what both handlers of the PolyBench loop do with a failed attempt
PolybenchFailed(bench_name) ==
    IF retry_allowed(attempt)
    THEN /\ attempt' = attempt + 1
         /\ backoffs' = [backoffs EXCEPT ![bench_name] = @ + 1]
         /\ UNCHANGED <<polybench_cpis, warnings, test_idx, pc>>
    ELSE /\ polybench_cpis' = use_fallback(polybench_cpis, bench_name)
         /\ UNCHANGED backoffs
         /\ warnings' = warnings \cup fallback_warning(bench_name)
         /\ NextTest(polybench_tests, "embench")

\* except subprocess.TimeoutExpired
PolybenchTimeout ==
    /\ pc = "polybench"
    /\ \E res \in PolybenchRuns :
          /\ res.exit = "timeout"
          /\ Observe(polybench_tests[test_idx], "timeout", {})
    /\ PolybenchFailed(polybench_tests[test_idx])
    /\ UNCHANGED <<no_cache_cpis, dcache_cpis, embench_cpis, cpis>>
    /\ MainUnchanged

\* except Exception: check_output raises CalledProcessError on a non-zero status
PolybenchError ==
    /\ pc = "polybench"
    /\ \E res \in PolybenchRuns :
          /\ res.exit = "nonzero"
          /\ Observe(polybench_tests[test_idx], "nonzero",
                     polybench_scan(res.output, polybench_tests[test_idx]))
    /\ PolybenchFailed(polybench_tests[test_idx])
    /\ UNCHANGED <<no_cache_cpis, dcache_cpis, embench_cpis, cpis>>
    /\ MainUnchanged

\* an attempt of the EmBench loop that returns: the output is scanned, then break
EmbenchCompleted ==
    /\ pc = "embench"
    /\ \E res \in EmbenchRuns :
          LET bench_name == embench_tests[test_idx]
              found      == embench_scan(res.output, bench_name)
          IN  /\ res.exit = "ok"
              /\ embench_cpis' = IF found # {}
                                 THEN Put(embench_cpis, bench_name, TheValue(found))
                                 ELSE embench_cpis
              /\ Observe(bench_name, "ok", found)
    /\ NextTest(embench_tests, "merge")
    /\ UNCHANGED <<no_cache_cpis, dcache_cpis, polybench_cpis, cpis, warnings,
                   backoffs>>
    /\ MainUnchanged

\* what both handlers of the EmBench loop do with a failed attempt
EmbenchFailed(bench_name) ==
    IF retry_allowed(attempt)
    THEN /\ attempt' = attempt + 1
         /\ backoffs' = [backoffs EXCEPT ![bench_name] = @ + 1]
         /\ UNCHANGED <<embench_cpis, warnings, test_idx, pc>>
    ELSE /\ embench_cpis' = use_fallback(embench_cpis, bench_name)
         /\ UNCHANGED backoffs
         /\ warnings' = warnings \cup fallback_warning(bench_name)
         /\ NextTest(embench_tests, "merge")

\* except subprocess.TimeoutExpired
EmbenchTimeout ==
    /\ pc = "embench"
    /\ \E res \in EmbenchRuns :
          /\ res.exit = "timeout"
          /\ Observe(embench_tests[test_idx], "timeout", {})
    /\ EmbenchFailed(embench_tests[test_idx])
    /\ UNCHANGED <<no_cache_cpis, dcache_cpis, polybench_cpis, cpis>>
    /\ MainUnchanged

\* except Exception
EmbenchError ==
    /\ pc = "embench"
    /\ \E res \in EmbenchRuns :
          /\ res.exit = "nonzero"
          /\ Observe(embench_tests[test_idx], "nonzero",
                     embench_scan(res.output, embench_tests[test_idx]))
    /\ EmbenchFailed(embench_tests[test_idx])
    /\ UNCHANGED <<no_cache_cpis, dcache_cpis, polybench_cpis, cpis>>
    /\ MainUnchanged

\* the merge loop over the keys of fallback_cpis
Merge ==
    /\ pc = "merge"
    /\ cpis' = merge(no_cache_cpis, dcache_cpis, polybench_cpis, embench_cpis)
    /\ pc' = "return"
    /\ UNCHANGED <<no_cache_cpis, dcache_cpis, polybench_cpis, embench_cpis,
                   test_idx, attempt, invocations, last_exit, offered,
                   only_timeouts, warnings, backoffs>>
    /\ MainUnchanged

\* return cpis, or the fallback table when cpis is empty; the locals of the
\* call and what was observed of its runs end with it
Return ==
    /\ pc = "return"
    /\ simulator_cpis' = returned_cpis(cpis)
    /\ warnings' = warnings \cup
                   (IF DOMAIN cpis = {} THEN {<<"NO_CPIS_PARSED", "all">>} ELSE {})
    /\ no_cache_cpis' = EmptyMap
    /\ dcache_cpis' = EmptyMap
    /\ polybench_cpis' = EmptyMap
    /\ embench_cpis' = EmptyMap
    /\ cpis' = EmptyMap
    /\ invocations' = NoRuns
    /\ last_exit' = NoExit
    /\ offered' = NoOffer
    /\ only_timeouts' = AllTimeouts
    /\ backoffs' = NoRuns
    /\ pc' = "compare"
    /\ UNCHANGED <<test_idx, attempt, calibration_results, comparisons,
                   cal_avg_error, cal_max_error, exit_code, frequency,
                   markdown_report, json_results>>
    /\ ErrorUnchanged
    /\ CalibrationUnchanged

\* comparisons = compare_benchmarks(calibration_results, simulator_cpis); the
\* calibration files, read by main before the simulator runs and not used
\* until here, are drawn here
Compare ==
    /\ pc = "compare"
    /\ \E results \in CalibrationInputs :
          /\ calibration_results' = results
          /\ comparisons' = compare_benchmarks(results, simulator_cpis,
                                               assumed_frequency_ghz)
          /\ warnings' = warnings \cup compare_warnings(results, simulator_cpis)
    /\ pc' = "summary"
    /\ UNCHANGED <<no_cache_cpis, dcache_cpis, polybench_cpis, embench_cpis,
                   test_idx, attempt, cpis, simulator_cpis, invocations,
                   last_exit, offered, only_timeouts, cal_avg_error,
                   cal_max_error, exit_code, frequency, markdown_report,
                   json_results>>
    /\ UNCHANGED backoffs
    /\ ErrorUnchanged
    /\ CalibrationUnchanged

\* the summary of main, the files it writes and its return value
Summary ==
    /\ pc = "summary"
    /\ cal_avg_error' = avg_error(calibrated_records(comparisons))
    /\ cal_max_error' = max_error(calibrated_records(comparisons))
    /\ markdown_report' = {generate_markdown_report(comparisons)}
    /\ json_results' = {generate_json_results(comparisons)}
    /\ exit_code' = exit_status(avg_error(calibrated_records(comparisons)))
    /\ pc' = "done"
    /\ UNCHANGED <<no_cache_cpis, dcache_cpis, polybench_cpis, embench_cpis,
                   test_idx, attempt, cpis, simulator_cpis, invocations,
                   last_exit, offered, only_timeouts, warnings,
                   calibration_results, comparisons, frequency>>
    /\ UNCHANGED backoffs
    /\ ErrorUnchanged
    /\ CalibrationUnchanged

Next ==
    \/ RunNoCache
    \/ RunDCache
    \/ PolybenchCompleted
    \/ PolybenchTimeout
    \/ PolybenchError
    \/ EmbenchCompleted
    \/ EmbenchTimeout
    \/ EmbenchError
    \/ Merge
    \/ Return
    \/ Compare
    \/ Summary

Spec == Init /\ [][Next]_vars

(***************************************************************************)
(* The latency calibrate_benchmark of embench_calibration.py writes to a   *)
(* calibration result: the slope of the regression of the run times on the *)
(* instruction counts.  Instruction counts are in millions and times in    *)
(* ms, so that the slope is in ns per instruction (the factor 1e6 of the   *)
(* source); latency_ns is in thousandths of a ns.                          *)
(***************************************************************************)
RECURSIVE Sum(_)
Sum(seq) == IF seq = <<>> THEN 0 ELSE Head(seq) + Sum(Tail(seq))

\* zip(x, y) stops at the shorter list
Zipped(x, y) == 1..(IF Len(x) < Len(y) THEN Len(x) ELSE Len(y))

Products(x, y) == [i \in Zipped(x, y) |-> x[i] * y[i]]

\* the slope linear_regression returns; 0.0 when the denominator vanishes
\* a line through the origin
slope_through_origin(x, y) ==
    LET sxy == Sum(Products(x, y))
        sx2 == Sum(Products(x, x))
    IN  IF sx2 = 0 THEN Zero ELSE Rat(sxy, sx2)

slope(x, y) ==
    LET n   == Len(x)
        sx  == Sum(x)
        sy  == Sum(y)
        sxy == Sum(Products(x, y))
        sx2 == Sum(Products(x, x))
        d   == n * sx2 - sx * sx
    IN  IF d = 0 THEN Zero ELSE Rat(n * sxy - sx * sy, d)

latency_ns(instr_list, time_list) ==
    RMul(slope(instr_list, time_list), Rat(1000, 1))

\* the instruction counts of the three repetition counts of a calibration
instr_list == <<1000, 2000, 3000>>

\* the trimmed mean run times one build may show: 0.343 ns per instruction
\* over one or two thousand million instructions
RunTimes == {686, 1372}

TimeLists == [1..Len(instr_list) -> RunTimes]

\* the latencies of the results of calibrate_benchmark, when whole
CalibratorLatency ==
    {l.n : l \in {m \in {latency_ns(instr_list, time_list) :
                            time_list \in TimeLists} : m.d = 1}}

(***************************************************************************)
(* compare_benchmarks on its own, with the summary of main after it.  An   *)
(* EmBench benchmark stands for those calibrate_benchmark measures, and a  *)
(* microbenchmark with an entry in loop_overhead_adjustment for those      *)
(* measured elsewhere.                                                     *)
(***************************************************************************)
\* the latencies of the microbenchmark's entries: 2.3 ns per instruction
MicroLatency == {2300}

CompareEntry ==
    [benchmark : {"edn"}, instruction_latency_ns : CalibratorLatency,
     calibrated : {"true", "false", "absent"}]
    \cup
    [benchmark : {"loadheavy"}, instruction_latency_ns : MicroLatency,
     calibrated : {"true", "false", "absent"}]

CompareResults == SeqsUpTo(CompareEntry, MaxResults)

\* the CPI the simulator may have given for each of the two benchmarks
CompareCPI == [edn |-> {1200, 2400, 7203}, loadheavy |-> {7000}]

\* the maps get_simulator_cpi_for_benchmarks may return for them
CompareCPIs ==
    UNION {{m \in [S -> UNION {CompareCPI[b] : b \in S}] :
                \A b \in S : m[b] \in CompareCPI[b]} :
           S \in SUBSET {"edn", "loadheavy"}}

\* the default frequency and one that overrides it
Frequencies == {assumed_frequency_ghz, Rat(7, 1)}

CompareInit ==
    /\ pc = "compare_benchmarks"
    /\ calibration_results \in CompareResults
    /\ simulator_cpis \in CompareCPIs
    /\ frequency \in Frequencies
    /\ no_cache_cpis = EmptyMap
    /\ dcache_cpis = EmptyMap
    /\ polybench_cpis = EmptyMap
    /\ embench_cpis = EmptyMap
    /\ test_idx = 1
    /\ attempt = 0
    /\ cpis = EmptyMap
    /\ invocations = NoRuns
    /\ last_exit = NoExit
    /\ offered = NoOffer
    /\ only_timeouts = AllTimeouts
    /\ backoffs = NoRuns
    /\ warnings = {}
    /\ comparisons = <<>>
    /\ cal_avg_error = Zero
    /\ cal_max_error = Zero
    /\ exit_code = 0
    /\ markdown_report = {}
    /\ json_results = {}
    /\ latency_sim = Zero
    /\ latency_real = Zero
    /\ error_value = Zero
    /\ CalibrationIdle

\* compare_benchmarks(calibration_results, simulator_cpis, frequency)
CompareBenchmarks ==
    /\ pc = "compare_benchmarks"
    /\ comparisons' = compare_benchmarks(calibration_results, simulator_cpis,
                                         frequency)
    /\ warnings' = warnings \cup
                   compare_warnings(calibration_results, simulator_cpis)
    /\ pc' = "summary"
    /\ UNCHANGED <<no_cache_cpis, dcache_cpis, polybench_cpis, embench_cpis,
                   test_idx, attempt, cpis, simulator_cpis, invocations,
                   last_exit, offered, only_timeouts, calibration_results,
                   cal_avg_error, cal_max_error, exit_code, frequency,
                   markdown_report, json_results>>
    /\ UNCHANGED backoffs
    /\ ErrorUnchanged
    /\ CalibrationUnchanged

CompareNext ==
    \/ CompareBenchmarks
    \/ Summary

CompareSpec == CompareInit /\ [][CompareNext]_vars

(***************************************************************************)
(* calculate_error on its own.                                             *)
(***************************************************************************)
\* the largest numerator and denominator of the latencies it is called with
MaxNumerator == 3
MaxDenominator == 2

Latencies ==
    {Rat(n, d) : n \in (0 - MaxNumerator)..MaxNumerator, d \in 1..MaxDenominator}

ErrorInit ==
    /\ pc = "calculate_error"
    /\ latency_sim \in Latencies
    /\ latency_real \in Latencies
    /\ error_value = Zero
    /\ CalibrationIdle
    /\ no_cache_cpis = EmptyMap
    /\ dcache_cpis = EmptyMap
    /\ polybench_cpis = EmptyMap
    /\ embench_cpis = EmptyMap
    /\ test_idx = 1
    /\ attempt = 0
    /\ cpis = EmptyMap
    /\ simulator_cpis = EmptyMap
    /\ invocations = NoRuns
    /\ last_exit = NoExit
    /\ offered = NoOffer
    /\ only_timeouts = AllTimeouts
    /\ backoffs = NoRuns
    /\ warnings = {}
    /\ calibration_results = <<>>
    /\ comparisons = <<>>
    /\ cal_avg_error = Zero
    /\ cal_max_error = Zero
    /\ exit_code = 0
    /\ frequency = assumed_frequency_ghz
    /\ markdown_report = {}
    /\ json_results = {}

\* error = calculate_error(t_sim, t_real)
CalculateError ==
    /\ pc = "calculate_error"
    /\ error_value' = calculate_error(latency_sim, latency_real)
    /\ pc' = "returned"
    /\ UNCHANGED <<no_cache_cpis, dcache_cpis, polybench_cpis, embench_cpis,
                   test_idx, attempt, cpis, simulator_cpis, invocations,
                   last_exit, offered, only_timeouts, warnings,
                   calibration_results, comparisons, cal_avg_error,
                   cal_max_error, exit_code, frequency, markdown_report,
                   json_results, latency_sim, latency_real, backoffs>>
    /\ CalibrationUnchanged

ErrorNext == CalculateError

ErrorSpec == ErrorInit /\ [][ErrorNext]_vars

(***************************************************************************)
(* linear_regression of embench_calibration.py.  A result is the triple    *)
(* it returns, or the exception it lets through.  [n |-> 0, d |-> 0] is a  *)
(* float nan.                                                              *)
(***************************************************************************)
NaN == [n |-> 0, d |-> 0]

Fitted(s, i, r) == [raised |-> FALSE, slope |-> s, intercept |-> i, r_squared |-> r]

Raised == [raised |-> TRUE, slope |-> NaN, intercept |-> NaN, r_squared |-> NaN]

RECURSIVE RSum(_)
RSum(seq) == IF seq = <<>> THEN Zero ELSE RAdd(Head(seq), RSum(Tail(seq)))

RSquare(a) == RMul(a, a)

\* the lines after the import of scipy failed
least_squares(x, y) ==
    LET n  == Len(x)
        sx == Sum(x)
        sy == Sum(y)
        d  == n * Sum(Products(x, x)) - sx * sx
    IN  IF d = 0
        THEN Fitted(Zero, IF n # 0 THEN Rat(sy, n) ELSE Zero, Zero)
        ELSE LET s      == slope(x, y)
                 i      == RDiv(RSub(Rat(sy, 1), RMul(s, Rat(sx, 1))), Rat(n, 1))
                 ym     == Rat(sy, n)
                 ss_tot == RSum([k \in 1..Len(y) |->
                                   RSquare(RSub(Rat(y[k], 1), ym))])
                 ss_res == RSum([k \in Zipped(x, y) |->
                                   RSquare(RSub(Rat(y[k], 1),
                                                RAdd(RMul(s, Rat(x[k], 1)), i)))])
             IN  Fitted(s, i, IF RLess(Zero, ss_tot)
                              THEN RSub(Rat(1, 1), RDiv(ss_res, ss_tot))
                              ELSE Zero)

AllIdentical(x) == \A j, k \in 1..Len(x) : x[j] = x[k]

\* stats.linregress(x, y) of the installed scipy: the least-squares fit of
\* paired samples; lists of different lengths make it raise ValueError, and
\* for no sample or x-values that are all identical it raises ValueError or,
\* in releases without that test, divides zero by zero
linregress(x, y) ==
    IF Len(x) # Len(y) THEN {Raised}
    ELSE IF AllIdentical(x) THEN {Raised, Fitted(NaN, NaN, Zero)}
    ELSE {least_squares(x, y)}

\* the results linear_regression may give, with scipy installed or not
linear_regression(x, y, has_scipy) ==
    IF has_scipy THEN linregress(x, y) ELSE {least_squares(x, y)}

(***************************************************************************)
(* embench_calibration.py: main calibrates the benchmarks one after the    *)
(* other with calibrate_benchmark.  Repetitions are counted in units of    *)
(* one level step, instructions in millions, times in milliseconds, the    *)
(* latency in thousandths of a nanosecond.                                 *)
(***************************************************************************)
\* repetition levels of one calibration
MaxLevels == 4

\* the rep_counts handed to calibrate_benchmark: increasing levels
rep_counts == [i \in 1..MaxLevels |-> i]

\* the benchmarks named on the command line
benchmarks == <<"edn", "crc32">>

\* instructions of one repetition, in millions per unit of repetitions
INSTS_PER_REP == [b \in {"edn", "crc32"} |-> IF b = "edn" THEN 2 ELSE 1]

\* count_instructions: the retired instructions of one run of the binary, or
\* nothing ({}) when the counter is not available or its output not readable
count_instructions(bench, reps) == {{}, {reps * INSTS_PER_REP[bench]}}

\* trimmed_mean(run_times_ms) of the runs timed at one level: two
\* milliseconds of start-up and one per unit of repetitions, or a slow start
\* at the first level of the first benchmark
avg_ms(bench, reps) ==
    {reps + 2} \cup (IF bench = benchmarks[1] /\ reps = 1 THEN {5} ELSE {})

DataPoint(reps, insts, ms) == [reps |-> reps, instructions |-> insts, time_ms |-> ms]

\* instr_list: appended to only at the levels that gave a count
RECURSIVE instr_list_of(_)
instr_list_of(points) ==
    IF points = <<>> THEN <<>>
    ELSE (IF Head(points).instructions # {}
          THEN <<TheValue(Head(points).instructions)>> ELSE <<>>)
         \o instr_list_of(Tail(points))

time_list_of(points) == [i \in 1..Len(points) |-> points[i].time_ms]

reps_list_of(points) == [i \in 1..Len(points) |-> points[i].reps]

enough_data_points(points) == Len(points) >= 3

has_instr_counts(points) == Len(instr_list_of(points)) >= 3

\* the x-values of the regression
regressor(points) ==
    IF has_instr_counts(points) THEN instr_list_of(points) ELSE reps_list_of(points)

\* latency_ns from the slope: ms per instruction, or ms per repetition
\* divided by the known instructions per repetition
instruction_latency_ns(fit, bench, points) ==
    IF has_instr_counts(points)
    THEN RMul(fit.slope, Rat(1000, 1))
    ELSE RMul(RDiv(fit.slope, Rat(INSTS_PER_REP[bench], 1)), Rat(1000, 1))

CalibrationResult(bench, fit, points) ==
    [benchmark              |-> bench,
     instruction_latency_ns |-> instruction_latency_ns(fit, bench, points),
     overhead_ms            |-> fit.intercept,
     r_squared              |-> fit.r_squared,
     data_points            |-> points]

\* accuracy_report.py is not part of a run of embench_calibration.py
ReportIdle ==
    /\ no_cache_cpis = EmptyMap
    /\ dcache_cpis = EmptyMap
    /\ polybench_cpis = EmptyMap
    /\ embench_cpis = EmptyMap
    /\ test_idx = 1
    /\ attempt = 0
    /\ cpis = EmptyMap
    /\ simulator_cpis = EmptyMap
    /\ invocations = NoRuns
    /\ last_exit = NoExit
    /\ offered = NoOffer
    /\ only_timeouts = AllTimeouts
    /\ backoffs = NoRuns
    /\ warnings = {}
    /\ calibration_results = <<>>
    /\ comparisons = <<>>
    /\ cal_avg_error = Zero
    /\ cal_max_error = Zero
    /\ frequency = assumed_frequency_ghz
    /\ markdown_report = {}
    /\ json_results = {}
    /\ latency_sim = Zero
    /\ latency_real = Zero
    /\ error_value = Zero

ReportUnchanged ==
    UNCHANGED <<no_cache_cpis, dcache_cpis, polybench_cpis, embench_cpis,
                test_idx, attempt, cpis, simulator_cpis, invocations,
                last_exit, offered, only_timeouts, backoffs, warnings,
                calibration_results, comparisons, cal_avg_error,
                cal_max_error, frequency, markdown_report, json_results,
                latency_sim, latency_real, error_value>>

\* what a run of main of embench_calibration.py leaves alone
FunctionsUnchanged ==
    UNCHANGED <<run_output, sample_x, sample_y, regression, samples, mean_value>>

\* main after the names were checked: results = [], the first benchmark, and
\* scipy installed or not
CalibrateInit ==
    /\ pc = "calibrate"
    /\ scipy \in BOOLEAN
    /\ bench_idx = 1
    /\ level = 1
    /\ data_points = <<>>
    /\ calibrated_results = <<>>
    /\ outcomes = <<>>
    /\ exit_code = 0
    /\ run_output = <<>>
    /\ sample_x = <<>>
    /\ sample_y = <<>>
    /\ regression = {}
    /\ samples = <<>>
    /\ mean_value = {}
    /\ ReportIdle

InLoop == pc = "calibrate" /\ bench_idx <= Len(benchmarks) /\ level <= Len(rep_counts)

AfterLoop == pc = "calibrate" /\ bench_idx <= Len(benchmarks) /\ level > Len(rep_counts)

\* calibrate_benchmark returned or raised: main's loop goes on or ends
NextBenchmark(outcome) ==
    /\ outcomes' = Append(outcomes, outcome)
    /\ bench_idx' = bench_idx + 1
    /\ level' = 1
    /\ data_points' = <<>>

\* build_benchmark gives no binary: continue with the next level
BuildFailed ==
    /\ InLoop
    /\ level' = level + 1
    /\ UNCHANGED <<pc, scipy, bench_idx, data_points, calibrated_results, outcomes,
                   exit_code>>
    /\ ReportUnchanged
    /\ FunctionsUnchanged

\* one level built, counted and timed
Measure ==
    /\ InLoop
    /\ \E insts \in count_instructions(benchmarks[bench_idx], rep_counts[level]),
          ms \in avg_ms(benchmarks[bench_idx], rep_counts[level]) :
          data_points' = Append(data_points, DataPoint(rep_counts[level], insts, ms))
    /\ level' = level + 1
    /\ UNCHANGED <<pc, scipy, bench_idx, calibrated_results, outcomes, exit_code>>
    /\ ReportUnchanged
    /\ FunctionsUnchanged

\* if len(data_points) < 3: return None, and main's "if r" skips it
TooFewPoints ==
    /\ AfterLoop
    /\ ~enough_data_points(data_points)
    /\ NextBenchmark("none")
    /\ UNCHANGED <<pc, scipy, calibrated_results, exit_code>>
    /\ ReportUnchanged
    /\ FunctionsUnchanged

\* the regression returns: the result is appended to results
FitReturns ==
    /\ AfterLoop
    /\ enough_data_points(data_points)
    /\ \E fit \in linear_regression(regressor(data_points),
                                      time_list_of(data_points), scipy) :
          /\ ~fit.raised
          /\ calibrated_results' =
                 Append(calibrated_results,
                        CalibrationResult(benchmarks[bench_idx], fit, data_points))
    /\ NextBenchmark("result")
    /\ UNCHANGED <<pc, scipy, exit_code>>
    /\ ReportUnchanged
    /\ FunctionsUnchanged

\* the regression raises: nothing in calibrate_benchmark or main catches
\* it, the interpreter prints the traceback and exits with status 1
FitRaises ==
    /\ AfterLoop
    /\ enough_data_points(data_points)
    /\ \E fit \in linear_regression(regressor(data_points),
                                      time_list_of(data_points), scipy) :
          fit.raised
    /\ outcomes' = Append(outcomes, "raised")
    /\ pc' = "traceback"
    /\ exit_code' = 1
    /\ UNCHANGED <<scipy, bench_idx, level, data_points, calibrated_results>>
    /\ ReportUnchanged
    /\ FunctionsUnchanged

\* if not results: sys.exit(1)
NoResults ==
    /\ pc = "calibrate"
    /\ bench_idx > Len(benchmarks)
    /\ calibrated_results = <<>>
    /\ pc' = "exit"
    /\ exit_code' = 1
    /\ UNCHANGED <<scipy, bench_idx, level, data_points, calibrated_results, outcomes>>
    /\ ReportUnchanged
    /\ FunctionsUnchanged

\* the results are written to the output file
SaveResults ==
    /\ pc = "calibrate"
    /\ bench_idx > Len(benchmarks)
    /\ calibrated_results # <<>>
    /\ pc' = "saved"
    /\ UNCHANGED <<scipy, bench_idx, level, data_points, calibrated_results, outcomes,
                   exit_code>>
    /\ ReportUnchanged
    /\ FunctionsUnchanged

CalibrateNext ==
    \/ BuildFailed
    \/ Measure
    \/ TooFewPoints
    \/ FitReturns
    \/ FitRaises
    \/ NoResults
    \/ SaveResults

CalibrateSpec == CalibrateInit /\ [][CalibrateNext]_vars

(***************************************************************************)
(* linear_regression called on its own, with any two short lists.  The     *)
(* x-values are counted in units of ten thousand instructions, so that     *)
(* 0.0001 ms per instruction is 1 ms per unit.                             *)
(***************************************************************************)
\* samples of one list
MaxSamples == 3

SampleX == 1..3

SampleY == 3..5

\* main of embench_calibration.py is not running
MainIdle ==
    /\ bench_idx = 1
    /\ level = 1
    /\ data_points = <<>>
    /\ calibrated_results = <<>>
    /\ outcomes = <<>>
    /\ exit_code = 0

MainIdleUnchanged ==
    UNCHANGED <<bench_idx, level, data_points, calibrated_results, outcomes, exit_code>>

RegressionInit ==
    /\ pc = "linear_regression"
    /\ sample_x \in SeqsUpTo(SampleX, MaxSamples)
    /\ sample_y \in SeqsUpTo(SampleY, MaxSamples)
    /\ scipy \in BOOLEAN
    /\ regression = {}
    /\ run_output = <<>>
    /\ samples = <<>>
    /\ mean_value = {}
    /\ MainIdle
    /\ ReportIdle

\* linear_regression(x, y): what it may return or raise
LinearRegression ==
    /\ pc = "linear_regression"
    /\ regression' = linear_regression(sample_x, sample_y, scipy)
    /\ pc' = "returned"
    /\ UNCHANGED <<sample_x, sample_y, scipy, run_output, samples, mean_value>>
    /\ MainIdleUnchanged
    /\ ReportUnchanged

RegressionNext == LinearRegression

RegressionSpec == RegressionInit /\ [][RegressionNext]_vars

(***************************************************************************)
(* trimmed_mean called on its own, with any short list of run times.       *)
(***************************************************************************)
\* timed runs of one list
MaxRuns == 5

RunTimesMs == {1, 2, 9}

RECURSIVE Insert(_, _)
Insert(v, s) ==
    IF s = <<>> THEN <<v>>
    ELSE IF v <= Head(s) THEN <<v>> \o s
    ELSE <<Head(s)>> \o Insert(v, Tail(s))

RECURSIVE sorted(_)
sorted(seq) == IF seq = <<>> THEN <<>> ELSE Insert(Head(seq), sorted(Tail(seq)))

\* int(n * trim_pct) for trim_pct = 0.2
trim_count(n) == n \div 5

\* a mean that drops only the slowest runs
trimmed_mean_top_only(vals) ==
    IF Len(vals) < 3 THEN Rat(Sum(vals), Len(vals))
    ELSE LET s       == sorted(vals)
             n       == Len(s)
             tc      == trim_count(n)
             trimmed == IF tc > 0 THEN SubSeq(s, 1, n - tc) ELSE s
         IN  IF trimmed # <<>> THEN Rat(Sum(trimmed), Len(trimmed))
             ELSE Rat(Sum(s), n)

\* trimmed_mean of a list that is not empty
trimmed_mean(vals) ==
    IF Len(vals) < 3 THEN Rat(Sum(vals), Len(vals))
    ELSE LET s       == sorted(vals)
             n       == Len(s)
             tc      == trim_count(n)
             trimmed == IF tc > 0 THEN SubSeq(s, tc + 1, n - tc) ELSE s
         IN  IF trimmed # <<>> THEN Rat(Sum(trimmed), Len(trimmed))
             ELSE Rat(Sum(s), n)

TrimInit ==
    /\ pc = "trimmed_mean"
    /\ samples \in SeqsUpTo(RunTimesMs, MaxRuns)
    /\ mean_value = {}
    /\ scipy = FALSE
    /\ run_output = <<>>
    /\ sample_x = <<>>
    /\ sample_y = <<>>
    /\ regression = {}
    /\ MainIdle
    /\ ReportIdle

TrimUnchanged ==
    /\ UNCHANGED <<samples, scipy, run_output, sample_x, sample_y, regression>>
    /\ MainIdleUnchanged
    /\ ReportUnchanged

\* trimmed_mean(values) returns
TrimmedMean ==
    /\ pc = "trimmed_mean"
    /\ samples # <<>>
    /\ mean_value' = {trimmed_mean(samples)}
    /\ pc' = "returned"
    /\ TrimUnchanged

\* sum(values) / len(values) of an empty list: ZeroDivisionError
TrimmedMeanRaises ==
    /\ pc = "trimmed_mean"
    /\ samples = <<>>
    /\ pc' = "ZeroDivisionError"
    /\ UNCHANGED mean_value
    /\ TrimUnchanged

TrimNext == TrimmedMean \/ TrimmedMeanRaises

TrimSpec == TrimInit /\ [][TrimNext]_vars

(***************************************************************************)
(* The three scans of simulator output of accuracy_report.py, each applied *)
(* on its own to any output of a run that returned: parse_cpis of run_test *)
(* and the scans of the PolyBench and the EmBench loop.                    *)
(***************************************************************************)
\* the benchmarks a line of the output may name
ParseNames == SUBSET {"loadheavy", "atax", "edn"}

\* two CPI values, to tell the lines of one output apart
ParseCPI == {420, 840}

ParseLine ==
    {NoMarkerLine} \cup [ids : ParseNames, marker : {TRUE},
                         value : {{}} \cup {{v} : v \in ParseCPI}]

ParseInit ==
    /\ pc = "output"
    /\ run_output \in SeqsUpTo(ParseLine, MaxLines)
    /\ scipy = FALSE
    /\ sample_x = <<>>
    /\ sample_y = <<>>
    /\ regression = {}
    /\ samples = <<>>
    /\ mean_value = {}
    /\ MainIdle
    /\ ReportIdle

ParseUnchanged ==
    /\ UNCHANGED <<run_output, scipy, sample_x, sample_y, regression, samples,
                   mean_value, dcache_cpis, test_idx, attempt, cpis,
                   simulator_cpis, invocations, last_exit, offered,
                   only_timeouts, backoffs, warnings, calibration_results,
                   comparisons, cal_avg_error, cal_max_error, frequency,
                   markdown_report, json_results, latency_sim, latency_real,
                   error_value>>
    /\ MainIdleUnchanged

\* run_test after the run returned: return parse_cpis(output)
ParseRunTest ==
    /\ pc = "output"
    /\ no_cache_cpis' = parse_cpis(run_output)
    /\ pc' = "run_test"
    /\ UNCHANGED <<polybench_cpis, embench_cpis>>
    /\ ParseUnchanged

\* the scan of the PolyBench loop after the run of a test returned
ParsePolybench ==
    /\ pc = "output"
    /\ LET bench_name == polybench_tests[1]
           found      == polybench_scan(run_output, bench_name)
       IN  polybench_cpis' = IF found # {}
                             THEN Put(polybench_cpis, bench_name, TheValue(found))
                             ELSE polybench_cpis
    /\ pc' = "polybench"
    /\ UNCHANGED <<no_cache_cpis, embench_cpis>>
    /\ ParseUnchanged

\* the scan of the EmBench loop after the run of a test returned
ParseEmbench ==
    /\ pc = "output"
    /\ LET bench_name == embench_tests[1]
           found      == embench_scan(run_output, bench_name)
       IN  embench_cpis' = IF found # {}
                           THEN Put(embench_cpis, bench_name, TheValue(found))
                           ELSE embench_cpis
    /\ pc' = "embench"
    /\ UNCHANGED <<no_cache_cpis, polybench_cpis>>
    /\ ParseUnchanged

ParseNext == ParseRunTest \/ ParsePolybench \/ ParseEmbench

ParseSpec == ParseInit /\ [][ParseNext]_vars

(***************************************************************************)
(* The merge and the return of get_simulator_cpi_for_benchmarks on any     *)
(* four suite maps, also maps with a key that fallback_cpis does not have  *)
(* (the tables of the source give none: every value of name_mapping and    *)
(* every loop benchmark is a key of fallback_cpis).                        *)
(***************************************************************************)
\* maps with any of the keys, all with the CPI value v
MapsOver(keys, v) == UNION {[d -> {v}] : d \in SUBSET keys}

MergeInit ==
    /\ pc = "merge"
    /\ no_cache_cpis \in MapsOver({"memorystrided", "loadheavy", "unlisted"}, 420)
    /\ dcache_cpis \in MapsOver({"memorystrided", "loadheavy", "unlisted"}, 840)
    /\ polybench_cpis \in MapsOver({"atax", "unlisted"}, 600)
    /\ embench_cpis \in MapsOver({"edn", "unlisted"}, 800)
    /\ test_idx = 1
    /\ attempt = 0
    /\ cpis = EmptyMap
    /\ simulator_cpis = EmptyMap
    /\ invocations = NoRuns
    /\ last_exit = NoExit
    /\ offered = NoOffer
    /\ only_timeouts = AllTimeouts
    /\ backoffs = NoRuns
    /\ warnings = {}
    /\ calibration_results = <<>>
    /\ comparisons = <<>>
    /\ cal_avg_error = Zero
    /\ cal_max_error = Zero
    /\ exit_code = 0
    /\ frequency = assumed_frequency_ghz
    /\ markdown_report = {}
    /\ json_results = {}
    /\ latency_sim = Zero
    /\ latency_real = Zero
    /\ error_value = Zero
    /\ CalibrationIdle

MergeNext == Merge \/ Return

MergeSpec == MergeInit /\ [][MergeNext]_vars

(***************************************************************************)
(* What the properties below read of a state.                              *)
(***************************************************************************)
\* the benchmarks of the two retry loops
LoopBench == {"atax", "edn"}

\* the microbenchmarks: what the two run_test runs are for
MicroBench == {"memorystrided", "loadheavy"}

Failed == {"timeout", "nonzero"}

\* the runs of test t are over and the locals of the call are still there
Finished(t) ==
    CASE t = "no_cache" -> pc \in {"dcache", "polybench", "embench", "merge", "return"}
      [] t = "dcache"   -> pc \in {"polybench", "embench", "merge", "return"}
      [] t = "atax"     -> pc \in {"embench", "merge", "return"}
      [] t = "edn"      -> pc \in {"merge", "return"}

\* the suite map that test t writes
MapOfTest(t) ==
    CASE t = "no_cache" -> no_cache_cpis
      [] t = "dcache"   -> dcache_cpis
      [] t = "atax"     -> polybench_cpis
      [] t = "edn"      -> embench_cpis

SuiteMap(suite) ==
    CASE suite = "no_cache"  -> no_cache_cpis
      [] suite = "dcache"    -> dcache_cpis
      [] suite = "polybench" -> polybench_cpis
      [] suite = "embench"   -> embench_cpis

\* what a suite map keeps of a benchmark: its key and the CPI, a bare float
SuiteCPIRecord(m, b) == [benchmark_id |-> b, cpi |-> m[b]]

\* every attempt of b's loop failed
Exhausted(b) ==
    /\ Finished(b)
    /\ invocations[b] = max_retries + 1
    /\ last_exit[b] \in Failed

HasFallbackEntry(b) ==
    /\ b \in DOMAIN MapOfTest(b)
    /\ MapOfTest(b)[b] = fallback_cpis[b]

\* the CPI main got for b is a fallback substitution, by the printed log
FallbackSubstituted(b) ==
    \/ <<"FALLBACK", b>> \in warnings
    \/ <<"NO_CPIS_PARSED", "all">> \in warnings

(***************************************************************************)
(* C1: when all three attempts of a benchmark time out and a fallback CPI  *)
(* is configured for it, its CPI in the suite map is the fallback CPI and  *)
(* the record carries provenance = fallback.  The suite map keeps the CPI  *)
(* alone: the statement fails on the provenance.                           *)
(***************************************************************************)
C1_FallbackRecordWithProvenance ==
    \A b \in LoopBench :
        (/\ Finished(b)
         /\ invocations[b] = max_retries + 1
         /\ only_timeouts[b]
         /\ b \in DOMAIN fallback_cpis)
        => /\ b \in DOMAIN MapOfTest(b)
           /\ LET rec == SuiteCPIRecord(MapOfTest(b), b)
              IN  /\ rec.cpi = fallback_cpis[b]
                  /\ "provenance" \in DOMAIN rec
                  /\ rec["provenance"] = "fallback"

(***************************************************************************)
(* C2: no comparison record whose simulator CPI was a fallback             *)
(* substitution is among the records the mean and the maximum error are    *)
(* computed over.                                                          *)
(***************************************************************************)
C2_FallbackExcludedFromAggregates ==
    pc = "done" =>
        \A i \in 1..Len(comparisons) :
            FallbackSubstituted(comparisons[i].name)
            => \A j \in 1..Len(calibrated_records(comparisons)) :
                   calibrated_records(comparisons)[j] # comparisons[i]

(***************************************************************************)
(* C3: the acquisition of a benchmark terminates: the simulator is run at  *)
(* most max_retries + 1 times for it, a loop that can go on has a step to  *)
(* take, and once its loop is left the benchmark is in exactly one of      *)
(* Succeeded (a CPI written by the run that returned), FallbackUsed (the   *)
(* fallback CPI, written after the last failure) and Unavailable (no       *)
(* entry).                                                                 *)
(***************************************************************************)
Succeeded(b) ==
    /\ b \in DOMAIN MapOfTest(b)
    /\ last_exit[b] = "ok"
    /\ MapOfTest(b)[b] \in offered[b]

FallbackUsed(b) ==
    /\ HasFallbackEntry(b)
    /\ Exhausted(b)
    /\ <<"FALLBACK", b>> \in warnings

Unavailable(b) ==
    /\ b \notin DOMAIN MapOfTest(b)
    /\ <<"FALLBACK", b>> \notin warnings

ExactlyOne(p, q, r) ==
    \/ p /\ ~q /\ ~r
    \/ ~p /\ q /\ ~r
    \/ ~p /\ ~q /\ r

C3_AcquisitionTerminates ==
    /\ \A b \in LoopBench :
          /\ invocations[b] <= max_retries + 1
          /\ Finished(b) =>
                /\ invocations[b] >= 1
                /\ ExactlyOne(Succeeded(b), FallbackUsed(b), Unavailable(b))
    /\ pc \in {"polybench", "embench"} => attempt <= max_retries /\ ENABLED Next

C3_Witness ==
    /\ pc = "merge"
    /\ invocations["atax"] = max_retries + 1
    /\ FallbackUsed("atax")
    /\ invocations["edn"] = 2
    /\ Succeeded("edn")

(***************************************************************************)
(* C4: after the retries of a benchmark are exhausted its suite entry is   *)
(* the fallback CPI when the table has one, and it has no entry otherwise. *)
(***************************************************************************)
C4_ExhaustedGivesFallbackOrNothing ==
    \A b \in LoopBench :
        Exhausted(b) =>
            IF b \in DOMAIN fallback_cpis
            THEN HasFallbackEntry(b)
            ELSE b \notin DOMAIN MapOfTest(b)

C4_Witness ==
    /\ Exhausted("edn")
    /\ last_exit["edn"] = "nonzero"
    /\ embench_cpis["edn"] = fallback_cpis["edn"]

(***************************************************************************)
(* C5: a run that returns with no well-formed CPI for the benchmark is a   *)
(* failed attempt: the loop is left after such a run only when the         *)
(* retries are exhausted, and then with the fallback CPI.                  *)
(***************************************************************************)
C5_ParseFailureFeedsRetry ==
    \A b \in LoopBench :
        (Finished(b) /\ last_exit[b] = "ok" /\ offered[b] = {})
        => /\ invocations[b] = max_retries + 1
           /\ b \in DOMAIN fallback_cpis => HasFallbackEntry(b)

(***************************************************************************)
(* C6: when the last run of a benchmark's test ended with a non-zero       *)
(* status and its output held a well-formed CPI for the benchmark, that    *)
(* CPI is the benchmark's entry in the suite map.                          *)
(***************************************************************************)
C6_NonZeroExitOutputScanned ==
    \A b \in LoopBench :
        (Finished(b) /\ last_exit[b] = "nonzero" /\ offered[b] # {})
        => /\ b \in DOMAIN MapOfTest(b)
           /\ MapOfTest(b)[b] \in offered[b]

(***************************************************************************)
(* C7: in the no-cache and the D-cache suite a failed or timed-out run is  *)
(* retried up to max_retries times, and after the last failure the         *)
(* microbenchmarks have their fallback CPI in the suite map.               *)
(***************************************************************************)
C7_RunTestRetriesAndFallsBack ==
    \A t \in {"no_cache", "dcache"} :
        (Finished(t) /\ last_exit[t] \in Failed)
        => /\ invocations[t] = max_retries + 1
           /\ \A b \in MicroBench :
                 /\ b \in DOMAIN MapOfTest(t)
                 /\ MapOfTest(t)[b] = fallback_cpis[b]

(***************************************************************************)
(* C8: the merged CPI of a benchmark is the value of the first suite, in   *)
(* the order dcache, polybench, embench, no_cache, that holds a record     *)
(* for it, the dcache record counting only for a designated benchmark.     *)
(***************************************************************************)
Precedence == <<"dcache", "polybench", "embench", "no_cache">>

Counted(suite, b) ==
    /\ b \in DOMAIN SuiteMap(suite)
    /\ suite = "dcache" => b \in dcache_benchmarks

C8_MergePrecedence ==
    pc = "return" =>
        \A b \in Bench : \A i \in 1..Len(Precedence) :
            (/\ Counted(Precedence[i], b)
             /\ \A j \in 1..(i - 1) : ~Counted(Precedence[j], b))
            => /\ b \in DOMAIN cpis
               /\ cpis[b] = SuiteMap(Precedence[i])[b]

C8_Witness ==
    /\ pc = "return"
    /\ "memorystrided" \in DOMAIN dcache_cpis \cap DOMAIN no_cache_cpis
    /\ dcache_cpis["memorystrided"] # no_cache_cpis["memorystrided"]
    /\ cpis["memorystrided"] = dcache_cpis["memorystrided"]
    /\ "atax" \in DOMAIN polybench_cpis \cap DOMAIN no_cache_cpis \cap DOMAIN dcache_cpis
    /\ cpis["atax"] = polybench_cpis["atax"]
    /\ "loadheavy" \in DOMAIN dcache_cpis \cap DOMAIN no_cache_cpis
    /\ cpis["loadheavy"] = no_cache_cpis["loadheavy"]

(***************************************************************************)
(* C9: a benchmark with no record in any suite is absent from the map the  *)
(* acquirer returns, whether or not another benchmark obtained a CPI, and  *)
(* its absence is reported.  As stated it fails when the merge is empty.   *)
(***************************************************************************)
NoRecord(b) ==
    \A suite \in {"no_cache", "dcache", "polybench", "embench"} :
        b \notin DOMAIN SuiteMap(suite)

Reported(b) == <<"NO_SIM_CPI", b>> \in warnings

CalibrationBenchmarks ==
    {calibration_results[i].benchmark : i \in 1..Len(calibration_results)}

ComparedBenchmarks == {comparisons[i].name : i \in 1..Len(comparisons)}

SuiteValues(b) ==
    {SuiteMap(suite)[b] :
        suite \in {s \in {"no_cache", "dcache", "polybench", "embench"} :
                      b \in DOMAIN SuiteMap(s)}}

C10_OneSuiteValue ==
    /\ [](pc = "return" => \A b \in DOMAIN cpis : cpis[b] \in SuiteValues(b))
    /\ [][pc = "return" =>
             \A b \in DOMAIN simulator_cpis' :
                 \/ simulator_cpis'[b] \in SuiteValues(b)
                 \/ DOMAIN cpis = {} /\ simulator_cpis'[b] = fallback_cpis[b]]_vars

C10_Witness ==
    /\ pc = "return"
    /\ Cardinality(SuiteValues("memorystrided")) = 2
    /\ Cardinality(SuiteValues("atax")) = 3
    /\ DOMAIN cpis = {"memorystrided", "atax"}

(***************************************************************************)
(* calculate_error on its own (ErrorSpec).                                 *)
(***************************************************************************)
Positive(a) == RLess(Zero, a)

\* C11: calculate_error is symmetric and zero on equal inputs: for any two
\* positive latencies a and b the error of (a, b) is the error of (b, a), and
\* the error of (a, a) is 0.
C11_ErrorSymmetricAndZeroOnEqual ==
    (pc = "returned" /\ Positive(latency_sim) /\ Positive(latency_real)) =>
        /\ error_value = calculate_error(latency_real, latency_sim)
        /\ (latency_sim = latency_real => error_value = Zero)

\* the error of (1/2, 3) is 5, as is the error of (3, 1/2)
C11_Witness ==
    /\ pc = "returned"
    /\ latency_sim = Rat(1, 2)
    /\ latency_real = Rat(3, 1)
    /\ error_value = Rat(5, 1)
    /\ calculate_error(latency_real, latency_sim) = Rat(5, 1)

\* C12: calculate_error(a, 0) and calculate_error(0, a) are +infinity for
\* any a > 0: a smaller latency of exactly zero gives +infinity.
C12_ZeroMinimumGivesInfinity ==
    (/\ pc = "returned"
     /\ \/ Positive(latency_sim) /\ latency_real = Zero
        \/ latency_sim = Zero /\ Positive(latency_real)) =>
        error_value = Inf

C12_Witness ==
    /\ pc = "returned"
    /\ latency_sim = Zero
    /\ latency_real = Rat(3, 2)
    /\ error_value = Inf

(***************************************************************************)
(* compare_benchmarks on its own and the summary after it (CompareSpec).   *)
(***************************************************************************)
\* C13: every record compare_benchmarks produces has an error that is at
\* least 0 or +infinity, for every latency calibrate_benchmark can write
\* (a zero or negative slope included) and every simulator CPI.
C13_ErrorNonNegativeOrInfinite ==
    \A i \in 1..Len(comparisons) :
        \/ comparisons[i].error = Inf
        \/ ~RLess(comparisons[i].error, Zero)

\* the entries of the calibration results that have a simulator CPI, in
\* order: the i-th record of comparisons is made from the i-th of them
HasSimulatorCPI(result) == result.benchmark \in DOMAIN simulator_cpis

Compared == SelectSeq(calibration_results, HasSimulatorCPI)

ComparisonsMade == pc \in {"summary", "done"} /\ Len(comparisons) = Len(Compared)

\* the latency of an entry, as a rational
EntryLatency(result) == Rat(result.instruction_latency_ns, 1)

\* C14: the normalizer returns latency x calibration instructions / simulator
\* instructions for a benchmark with an adjustment (2.3 with (20, 23) gives
\* 2.0) and the latency unchanged for a benchmark without one.
C14_NormalizedLatency ==
    ComparisonsMade =>
        \A i \in 1..Len(comparisons) :
            LET result == Compared[i]
                b      == result.benchmark
                real   == comparisons[i].real_latency_ns
            IN  /\ b \in DOMAIN loop_overhead_adjustment =>
                       real = Rat(result.instruction_latency_ns
                                      * loop_overhead_adjustment[b][1],
                                  loop_overhead_adjustment[b][2])
                /\ b \notin DOMAIN loop_overhead_adjustment =>
                       real = EntryLatency(result)
                /\ (b = "loadheavy" /\ result.instruction_latency_ns = 2300) =>
                       real = Rat(2000, 1)

\* 2.3 is normalized to 2.0 for loadheavy next to an unchanged 0.343 for edn
C14_Witness ==
    /\ ComparisonsMade
    /\ \E i, j \in 1..Len(comparisons) :
          /\ comparisons[i].name = "loadheavy"
          /\ Compared[i].instruction_latency_ns = 2300
          /\ comparisons[i].real_latency_ns = Rat(2000, 1)
          /\ comparisons[j].name = "edn"
          /\ Compared[j].instruction_latency_ns = 343
          /\ comparisons[j].real_latency_ns = Rat(343, 1)

\* C15: the normalization is applied before the comparison: in every record
\* the error is calculate_error of the simulator latency and the normalized
\* real latency, and real_latency_ns is the normalized value.
C15_NormalizedBeforeCompared ==
    ComparisonsMade =>
        \A i \in 1..Len(comparisons) :
            LET normalized == adjusted_latency(Compared[i].benchmark,
                                               EntryLatency(Compared[i]))
            IN  /\ comparisons[i].real_latency_ns = normalized
                /\ comparisons[i].error =
                       calculate_error(comparisons[i].sim_latency_ns, normalized)

\* CPI 7.0 at 3.5 GHz is 2.0 ns: no error against the normalized 2.0, where
\* the latency 2.3 of the entry would give 15%
C15_Witness ==
    /\ ComparisonsMade
    /\ \E i \in 1..Len(comparisons) :
          /\ comparisons[i].name = "loadheavy"
          /\ Compared[i].instruction_latency_ns = 2300
          /\ comparisons[i].sim_latency_ns = Rat(2000, 1)
          /\ comparisons[i].real_latency_ns = Rat(2000, 1)
          /\ comparisons[i].error = Zero
          /\ calculate_error(Rat(2000, 1), EntryLatency(Compared[i])) = Rat(3, 20)

\* the distance of two rationals
Distance(a, b) == RAbs(RSub(a, b))

\* C16: for every compared benchmark sim_latency_ns is the merged CPI over
\* the assumed frequency (3.5 unless the parameter is given) and the error is
\* |sim - real| / min(sim, real); with real latency 0.343 at 3.5 GHz, CPI 1.2
\* gives an error within a thousandth of 0 and CPI 2.4 within a thousandth
\* of 1.
C16_SimLatencyAndError ==
    ComparisonsMade =>
        \A i \in 1..Len(comparisons) :
            LET c    == comparisons[i]
                sim  == c.sim_latency_ns
                real == c.real_latency_ns
            IN  /\ c.sim_cpi = simulator_cpis[c.name]
                /\ RMul(sim, frequency) = Rat(c.sim_cpi, 1)
                /\ RMin(sim, real) # Zero =>
                       RMul(c.error, RMin(sim, real)) = Distance(sim, real)
                /\ (frequency = Rat(7, 2) /\ real = Rat(343, 1) /\ c.sim_cpi = 1200) =>
                       RLess(Distance(c.error, Zero), Rat(1, 1000))
                /\ (frequency = Rat(7, 2) /\ real = Rat(343, 1) /\ c.sim_cpi = 2400) =>
                       RLess(Distance(c.error, Rat(1, 1)), Rat(1, 1000))

\* real latency 0.343 and CPI 2.4 at the default frequency: 0.6857 ns and an
\* error of 2399/2401
C16_Witness ==
    /\ ComparisonsMade
    /\ frequency = assumed_frequency_ghz
    /\ assumed_frequency_ghz = Rat(7, 2)
    /\ \E i \in 1..Len(comparisons) :
          /\ comparisons[i].real_latency_ns = Rat(343, 1)
          /\ comparisons[i].sim_cpi = 2400
          /\ comparisons[i].sim_latency_ns = Rat(4800, 7)
          /\ comparisons[i].error = Rat(2399, 2401)

\* the records of comparisons for benchmark b
RecordsOf(b) == {i \in 1..Len(comparisons) : comparisons[i].name = b}

\* the benchmarks with a hardware baseline
Baselined == {calibration_results[i].benchmark : i \in 1..Len(calibration_results)}

\* C17: compare_benchmarks emits exactly one record for each benchmark that
\* has both a hardware baseline and a merged CPI, and none for a benchmark
\* without a simulator CPI, also when the benchmark appears more than once
\* in the merged calibration results.
C17_OneRecordPerBenchmark ==
    ComparisonsMade =>
        \A b \in Baselined :
            Cardinality(RecordsOf(b)) = IF b \in DOMAIN simulator_cpis THEN 1 ELSE 0

\* the records with calibrated = TRUE, selected without calibrated_records
RECURSIVE CalibratedOnly(_)
CalibratedOnly(cmps) ==
    IF cmps = <<>> THEN <<>>
    ELSE IF Head(cmps).calibrated = TRUE
         THEN <<Head(cmps)>> \o CalibratedOnly(Tail(cmps))
         ELSE CalibratedOnly(Tail(cmps))

CalibratedMean == avg_error(CalibratedOnly(comparisons))

CalibratedMax == max_error(CalibratedOnly(comparisons))

\* the names a sequence of rows shows
Shown(rows) == {rows[i] : i \in 1..Len(rows)}

\* C18: the mean and the maximum error of the console summary, of the
\* Markdown report, of the JSON summary and of the exit status are those of
\* exactly the records with calibrated = TRUE; the other records change none
\* of them and are still in the per-benchmark output.
C18_AggregatesOverCalibratedOnly ==
    pc = "done" =>
        /\ cal_avg_error = CalibratedMean
        /\ cal_max_error = CalibratedMax
        /\ \A report \in markdown_report :
              /\ report.average_error = CalibratedMean
              /\ report.max_error = CalibratedMax
              /\ \A i \in 1..Len(comparisons) :
                    IF comparisons[i].calibrated
                    THEN comparisons[i].name \in Shown(report.calibrated)
                    ELSE comparisons[i].name \in Shown(report.uncalibrated)
              /\ Len(report.calibrated) + Len(report.uncalibrated) = Len(comparisons)
        /\ \A results \in json_results :
              /\ results.summary.average_error = CalibratedMean
              /\ results.summary.max_error = CalibratedMax
              /\ results.benchmarks = comparisons
        /\ markdown_report # {}
        /\ json_results # {}
        /\ exit_code = 1 <=> RLess(Rat(2, 1), CalibratedMean)

\* an uncalibrated record with an error of 5 beside a calibrated one with no
\* error: the mean and the maximum stay 0 and both are in the JSON output
C18_Witness ==
    /\ pc = "done"
    /\ \E i, j \in 1..Len(comparisons) :
          /\ comparisons[i].calibrated
          /\ comparisons[i].error = Zero
          /\ ~comparisons[j].calibrated
          /\ comparisons[j].error = Rat(5, 1)
          /\ \A results \in json_results :
                /\ results.benchmarks[j] = comparisons[j]
                /\ results.summary.max_error = Zero
    /\ json_results # {}
    /\ cal_avg_error = Zero
    /\ cal_max_error = Zero
    /\ exit_code = 0

C20_CalibratedOnlyWhenStated ==
    ComparisonsMade =>
        \A i \in 1..Len(comparisons) :
            comparisons[i].calibrated => Compared[i].calibrated = "true"

(***************************************************************************)
(* Properties of embench_calibration.py.                                   *)
(***************************************************************************)
\* C21: when the loop over the repetition levels of a benchmark has ended,
\* calibrate_benchmark returns None if fewer than 3 data points were
\* collected and a CalibrationResult if 3 or more were, and main goes on to
\* the next benchmark without a second call.
C21_ResultIffThreePoints ==
    [][AfterLoop =>
         /\ outcomes' = Append(outcomes, IF enough_data_points(data_points)
                                         THEN "result" ELSE "none")
         /\ bench_idx' = bench_idx + 1]_vars

\* the samples lie on the line time_ms = 2.0 + 0.0001 * instructions, at
\* three or more distinct instruction counts
Noiseless(x, y) ==
    /\ Len(x) = Len(y)
    /\ \A i \in 1..Len(x) : y[i] = 2 + x[i]
    /\ Cardinality({x[i] : i \in 1..Len(x)}) >= 3

\* C22: for noiseless samples of time_ms = 2.0 + 0.0001 * instructions at
\* three or more distinct counts, linear_regression returns the slope of
\* 0.0001 ms per instruction (1 per ten thousand instructions, a latency of
\* slope x 1e6 = 100.0 ns), the intercept 2.0 and r_squared 1.0.
C22_NoiselessFit ==
    (pc = "returned" /\ Noiseless(sample_x, sample_y)) =>
        \A fit \in regression :
            /\ ~fit.raised
            /\ RMul(fit.slope, Rat(100, 1)) = Rat(100, 1)
            /\ fit.intercept = Rat(2, 1)
            /\ fit.r_squared = Rat(1, 1)

\* the fit of (1, 3), (3, 5), (2, 4) was returned
C22_Witness ==
    /\ pc = "returned"
    /\ sample_x = <<1, 3, 2>>
    /\ sample_y = <<3, 5, 4>>
    /\ regression # {}
    /\ \A fit \in regression : ~fit.raised /\ fit.slope = Rat(1, 1)

\* C23: a failure at one benchmark never ends the batch: main ends only after
\* calibrate_benchmark was called and has returned for every benchmark of
\* the list.
C23_BatchNeverAborted ==
    pc \in {"traceback", "exit", "saved"} =>
        /\ bench_idx > Len(benchmarks)
        /\ Len(outcomes) = Len(benchmarks)
        /\ \A i \in 1..Len(outcomes) : outcomes[i] \in {"none", "result"}

\* the x-value of the level a data point was measured at
LevelX(points, i) ==
    IF has_instr_counts(points) THEN points[i].instructions ELSE {points[i].reps}

\* the i-th time of time_list is the time of the i-th data point
Paired(points) ==
    LET x == regressor(points)
        y == time_list_of(points)
    IN  /\ Len(x) = Len(y)
        /\ \A i \in Zipped(x, y) : LevelX(points, i) = {x[i]}

\* C24: the lists handed to linear_regression pair every x-value with the
\* time measured at the same repetition level, whichever levels gave an
\* instruction count.
C24_PairsOfSameLevel ==
    (AfterLoop /\ enough_data_points(data_points)) => Paired(data_points)

CounterMissing(points) == \E i \in 1..Len(points) : points[i].instructions = {}

\* C25: with 3 or more data points of which some have no instruction count,
\* calibrate_benchmark still returns a result: the latency is the slope of
\* time against the instruction counts x 1e6 when 3 or more levels gave a
\* count, and the slope of time against reps / instructions per repetition
\* x 1e6 otherwise.
C25_MissingCountersNeverFail ==
    [][(AfterLoop /\ enough_data_points(data_points) /\ CounterMissing(data_points)) =>
          /\ pc' = "calibrate"
          /\ Len(calibrated_results') = Len(calibrated_results) + 1
          /\ LET fit == least_squares(regressor(data_points), time_list_of(data_points))
                 r   == calibrated_results'[Len(calibrated_results')]
             IN  r.instruction_latency_ns =
                    RMul(IF Len(instr_list_of(data_points)) >= 3
                         THEN fit.slope
                         ELSE RDiv(fit.slope, Rat(INSTS_PER_REP[benchmarks[bench_idx]], 1)),
                         Rat(1000, 1))]_vars

\* the mean of y for lists of equal length, 0 for no samples
MeanOf(y) == IF y = <<>> THEN Zero ELSE Rat(Sum(y), Len(y))

\* C26: for samples whose x-values are all identical (also one sample or
\* none) linear_regression does not raise and returns slope 0, r_squared 0
\* and the mean of y as the intercept (0 for no samples).
C26_DegenerateRegression ==
    (pc = "returned" /\ AllIdentical(sample_x) /\ Len(sample_x) = Len(sample_y)) =>
        \A fit \in regression :
            /\ ~fit.raised
            /\ fit.slope = Zero
            /\ fit.r_squared = Zero
            /\ fit.intercept = MeanOf(sample_y)

MinOf(seq) == CHOOSE v \in {seq[i] : i \in 1..Len(seq)} : \A i \in 1..Len(seq) : v <= seq[i]

MaxOf(seq) == CHOOSE v \in {seq[i] : i \in 1..Len(seq)} : \A i \in 1..Len(seq) : v >= seq[i]

\* the list without the first occurrence of v
RECURSIVE RemoveOne(_, _)
RemoveOne(seq, v) ==
    IF seq = <<>> THEN <<>>
    ELSE IF Head(seq) = v THEN Tail(seq)
    ELSE <<Head(seq)>> \o RemoveOne(Tail(seq), v)

\* the list without its k smallest and its k largest values
RECURSIVE Shaved(_, _)
Shaved(seq, k) ==
    IF k = 0 \/ Len(seq) < 2 THEN seq
    ELSE Shaved(RemoveOne(RemoveOne(seq, MinOf(seq)), MaxOf(seq)), k - 1)

RLeq(a, b) == a.n * b.d <= b.n * a.d

TheMean == TheValue(mean_value)

\* C27: for 3 or more samples trimmed_mean is the mean of the samples
\* without the smallest and the largest fifth of them (the whole number of
\* samples in a fifth), for 1 or 2 samples it is the plain mean, and it is
\* never below the smallest nor above the largest sample.
C27_TrimmedMean ==
    pc = "returned" =>
        LET n    == Len(samples)
            kept == IF n >= 3 THEN Shaved(samples, n \div 5) ELSE samples
        IN  /\ mean_value = {Rat(Sum(kept), Len(kept))}
            /\ Len(kept) = (IF n >= 3 THEN n - 2 * (n \div 5) ELSE n)
            /\ RLeq(Rat(MinOf(samples), 1), TheMean)
            /\ RLeq(TheMean, Rat(MaxOf(samples), 1))

\* five runs of which the fastest and the slowest are dropped: the mean of
\* 2, 2, 9 and not of 1, 2, 2, 9, 9
C27_Witness ==
    /\ pc = "returned"
    /\ samples = <<9, 2, 1, 9, 2>>
    /\ mean_value = {Rat(13, 3)}

(***************************************************************************)
(* Properties of the scans and of the retry loops of accuracy_report.py.   *)
(***************************************************************************)
\* every CPI of the map is the value of a line of the output that holds the
\* marker and the benchmark's identifier
FromOwnLine(m) ==
    \A b \in DOMAIN m :
        \E i \in 1..Len(run_output) :
            /\ run_output[i].marker
            /\ b \in run_output[i].ids
            /\ run_output[i].value = {m[b]}

\* C28: in every suite the CPI recorded for a benchmark is the well-formed
\* value of an output line that holds the CPI marker and the benchmark's own
\* identifier, never the value of a line of another benchmark.
C28_CPIFromOwnLine ==
    /\ pc = "run_test" => FromOwnLine(no_cache_cpis)
    /\ pc = "polybench" => FromOwnLine(polybench_cpis)
    /\ pc = "embench" => FromOwnLine(embench_cpis)

\* the retry loop is at benchmark b
Current(b) ==
    \/ pc = "polybench" /\ polybench_tests[test_idx] = b
    \/ pc = "embench" /\ embench_tests[test_idx] = b

NoSuiteCPI ==
    /\ DOMAIN no_cache_cpis = {}
    /\ DOMAIN dcache_cpis = {}
    /\ DOMAIN polybench_cpis = {}
    /\ DOMAIN embench_cpis = {}

\* C30: the merged map has only keys of fallback_cpis, so the CPI of a
\* benchmark the table does not have is left out of it, and it is empty
\* when no suite gave a CPI; the map returned is the merged map or, when
\* that is empty, the whole fallback table: never empty, and with keys of
\* fallback_cpis only.
C30_ReturnedMap ==
    [][/\ pc = "merge" =>
            /\ DOMAIN cpis' \subseteq DOMAIN fallback_cpis
            /\ NoSuiteCPI => DOMAIN cpis' = {}
       /\ pc = "return" =>
            /\ DOMAIN simulator_cpis' # {}
            /\ DOMAIN simulator_cpis' \subseteq DOMAIN fallback_cpis
            /\ DOMAIN cpis = {} => simulator_cpis' = fallback_cpis
            /\ DOMAIN cpis # {} => simulator_cpis' = cpis]_vars

\* the PolyBench map held the CPI of a benchmark that the fallback table
\* does not have: the merged map has atax and not that benchmark
C30_Witness ==
    /\ pc = "return"
    /\ "unlisted" \in DOMAIN polybench_cpis
    /\ "atax" \in DOMAIN cpis
    /\ "unlisted" \notin DOMAIN cpis

====
